---- MODULE Spec2Model ----
(***************************************************************************)
(* Control-link protocol of the drone client (src/Test_Commands.py):       *)
(* the flight-command encoder of DroneTester, its action methods and the   *)
(* test harness that drives them next to the heartbeat thread.             *)
(***************************************************************************)
EXTENDS Integers, Sequences, FiniteSets, TLC

VARIABLES
    tester,       \* the DroneTester object: its fields, named as in __init__
    sent,         \* the datagrams the current (or last) method call handed to
                  \* socket.sendto, in order
    \* -- a method called on its own --
    given,        \* the object as it was when the method under study was called
    device_type,  \* the device_type argument of the last build_flight_command
    command,      \* the value the last build_flight_command call returned
    op,           \* the method applied last ("none" before any call)
    \* -- the main thread running main() --
    mode,         \* the test chosen at the prompt (0 before the choice)
    phase,        \* "prompt", "connect", "try", "except", "cleanup", "done";
                  \* "api" when the heartbeat interface is called alone
    step,         \* index in the test's sequence of calls
    call,         \* the method executing ("idle" between two calls)
    pc,           \* position inside that method
    iter,         \* passes made through the method's timed loop
    finished,     \* the method that returned last, "none" once the next began
    interrupts,   \* KeyboardInterrupts raised so far
    preempted,    \* what was executing when the except clause was entered
    outcome,      \* how the test ended
    \* -- the heartbeat thread --
    hb_pc,        \* position of heartbeat_loop in each thread started so far
    hb_last,      \* the last datagram the heartbeat thread handed to sendto
    \* -- the viewers (CameraViewer, DroneViewer) and their run() loop --
    viewer,       \* the viewer object: kind, cap, is_drone, current_cam
    v_pc,         \* position of run(): "new", "top", "read", "key", and the
                  \* ends "quit", "exhausted", "fatal"
    reconnect_attempts,  \* the local counter of run()
    v_op,         \* the operation performed last
    events,       \* what that operation did, in order: captures created,
                  \* datagrams sent
    raised,       \* whether its last open_stream() raised RuntimeError
    before,       \* the viewer as it was when that operation began
    failed_opens, \* consecutive failed open_stream() calls of the reconnect
                  \* path of run()
    empty_run,    \* consecutive reads of run() that returned no frame
    reopen_at,    \* empty_run when the read path last forced a reopen, 0
                  \* when it has not since the last frame
    live_caps     \* captures that are opened and have not been released

codecVars == <<given, device_type, command, op>>
mainVars == <<mode, phase, step, call, pc, iter, finished, interrupts,
              preempted, outcome>>
hbVars == <<hb_pc, hb_last>>
viewVars == <<viewer, v_pc, reconnect_attempts, v_op, events, raised, before,
              failed_opens, empty_run, reopen_at, live_caps>>
vars == <<tester, sent, codecVars, mainVars, hbVars, viewVars>>

----------------------------------------------------------------------------
(* Bounds of the model *)

\* how far beyond the byte range 0..255 the axis inputs reach
MaxExcess == 1

\* most passes a timed send loop makes before its time is up
MaxLoopSends == 2

\* most KeyboardInterrupts raised during one run
MaxInterrupts == 1

\* most heartbeat threads a caller of start_heartbeat() gets started
MaxStarts == 3

----------------------------------------------------------------------------
(* Python integer arithmetic *)

Max(a, b) == IF a >= b THEN a ELSE b
Min(a, b) == IF a <= b THEN a ELSE b

\* a ^ b on non-negative integers, bit by bit
RECURSIVE XorNat(_, _)
XorNat(a, b) ==
    IF a = 0 THEN b
    ELSE IF b = 0 THEN a
    ELSE (((a % 2) + (b % 2)) % 2) + 2 * XorNat(a \div 2, b \div 2)

\* a ^ b on Python's unbounded two's-complement integers (~x = -x-1)
PyXor(a, b) ==
    IF a >= 0 /\ b >= 0 THEN XorNat(a, b)
    ELSE IF a < 0 /\ b < 0 THEN XorNat(-a - 1, -b - 1)
    ELSE IF a < 0 THEN -XorNat(-a - 1, b) - 1
    ELSE -XorNat(a, -b - 1) - 1

\* x & 0xFF (== x & 255): the low eight bits of a two's-complement integer
Mask8(x) == x % 256

----------------------------------------------------------------------------
(* DroneType *)

STANDARD == 1
ADVANCED == 10

----------------------------------------------------------------------------
(* DroneTester.build_flight_command *)

\* byte5 with the gyro correction flag one bit too low
Byte5GyroBit6(self) ==
      (IF self.is_fast_fly THEN 1 ELSE 0)
    + (IF self.is_fast_drop THEN 2 ELSE 0)
    + (IF self.is_emergency_stop THEN 4 ELSE 0)
    + (IF self.is_circle_turn_end THEN 8 ELSE 0)
    + (IF self.is_no_head_mode THEN 16 ELSE 0)
    + (IF self.is_fast_return \/ self.is_unlock THEN 32 ELSE 0)
    + (IF self.is_gyro_correction THEN 64 ELSE 0)

\* byte5 of the advanced layout
Byte5(self) ==
      (IF self.is_fast_fly THEN 1 ELSE 0)
    + (IF self.is_fast_drop THEN 2 ELSE 0)
    + (IF self.is_emergency_stop THEN 4 ELSE 0)
    + (IF self.is_circle_turn_end THEN 8 ELSE 0)
    + (IF self.is_no_head_mode THEN 16 ELSE 0)
    + (IF self.is_fast_return \/ self.is_unlock THEN 32 ELSE 0)
    + (IF self.is_gyro_correction THEN 128 ELSE 0)

\* byte5_std whose bit 0 forgets the fast drop flag
Byte5StdFlyOnly(self) ==
      (IF self.is_fast_fly THEN 1 ELSE 0)
    + (IF self.is_emergency_stop THEN 2 ELSE 0)
    + (IF self.is_gyro_correction THEN 4 ELSE 0)
    + (IF self.is_circle_turn_end THEN 8 ELSE 0)

\* byte5_std and byte6_std of the standard layout
Byte5Std(self) ==
      (IF self.is_fast_fly \/ self.is_fast_drop THEN 1 ELSE 0)
    + (IF self.is_emergency_stop THEN 2 ELSE 0)
    + (IF self.is_gyro_correction THEN 4 ELSE 0)
    + (IF self.is_circle_turn_end THEN 8 ELSE 0)

Byte6Std(self) == IF self.is_no_head_mode THEN 1 ELSE 0

\* a clamp whose lower end is 0
ClampFromZero(v) == Max(0, Min(255, v))

\* max(1, min(255, v))
Clamp(v) == Max(1, Min(255, v))

\* the object after the clamp and the throttle remap (the method writes the
\* clamped values back into the fields)
Clamped(self) ==
    [self EXCEPT
        !.control_turn = Clamp(self.control_turn),
        !.control_byte1 = Clamp(self.control_byte1),
        !.control_byte2 = Clamp(self.control_byte2),
        !.control_accelerator =
            IF self.control_accelerator = 1 THEN 0 ELSE self.control_accelerator]

\* a checksum that leaves the yaw byte out
ChecksumNoTurn(s) ==
    PyXor(PyXor(PyXor(s.control_byte1, s.control_byte2),
                s.control_accelerator),
          Mask8(Byte5(s)))

\* checksum of the advanced layout, before the final & 0xFF
Checksum(s) ==
    PyXor(PyXor(PyXor(PyXor(s.control_byte1, s.control_byte2),
                      s.control_accelerator), s.control_turn),
          Mask8(Byte5(s)))

\* a checksum_std that leaves byte6_std out
ChecksumStdNoByte6(s) ==
    PyXor(Byte5Std(s),
          PyXor(PyXor(PyXor(s.control_byte2, s.control_byte1),
                      s.control_accelerator), s.control_turn))

\* checksum_std of the standard layout, before the final & 0xFF
ChecksumStd(s) ==
    PyXor(PyXor(Byte5Std(s),
                PyXor(PyXor(PyXor(s.control_byte2, s.control_byte1),
                            s.control_accelerator), s.control_turn)),
          Mask8(Byte6Std(s)))

\* an advanced packet with control_byte1 and control_byte2 exchanged
AdvancedCommandSwapped(s) ==
    <<3>> \o <<102,
               Mask8(s.control_byte2),
               Mask8(s.control_byte1),
               Mask8(s.control_accelerator),
               Mask8(s.control_turn),
               Mask8(Byte5(s)),
               Mask8(Checksum(s)),
               153>>

AdvancedCommand(s) ==
    <<3>> \o <<102,
               Mask8(s.control_byte1),
               Mask8(s.control_byte2),
               Mask8(s.control_accelerator),
               Mask8(s.control_turn),
               Mask8(Byte5(s)),
               Mask8(Checksum(s)),
               153>>

StandardCommand(s) ==
    <<3>> \o <<102, 20,
               Mask8(s.control_byte1),
               Mask8(s.control_byte2),
               Mask8(s.control_accelerator),
               Mask8(s.control_turn),
               Mask8(Byte5Std(s)),
               Mask8(Byte6Std(s)),
               0, 0, 0, 0, 0, 0, 0, 0, 0, 0,
               Mask8(ChecksumStd(s)),
               153>>

\* build_flight_command(self, device_type): the object afterwards and the
\* bytes returned
build_flight_command(self, dtype) ==
    LET s == Clamped(self)
    IN  [self |-> s,
         full_command |-> IF dtype = ADVANCED THEN AdvancedCommand(s)
                          ELSE StandardCommand(s)]

----------------------------------------------------------------------------
(* DroneTester.send_command, send_flight_command, hover *)

\* send_command(self, data): the datagrams sendto has taken, after log (no
\* socket: nothing is sent; closed socket: sendto raises, the error is printed)
send_command(self, log, data) ==
    IF self.socket = "open" THEN Append(log, data) ELSE log

\* send_flight_command(self): builds with the default device type and sends
send_flight_command(self, log) ==
    LET b == build_flight_command(self, ADVANCED)
    IN  [self |-> b.self, log |-> send_command(b.self, log, b.full_command)]

\* a hover that forgets to clear the fast drop flag
HoverAssignKeepsDrop(self) ==
    [self EXCEPT
        !.is_fast_fly = FALSE,
        !.is_emergency_stop = FALSE,
        !.control_accelerator = 128,
        !.control_turn = 128,
        !.control_byte1 = 128,
        !.control_byte2 = 128]

\* the assignments of hover() before its send
HoverAssign(self) ==
    [self EXCEPT
        !.is_fast_fly = FALSE,
        !.is_fast_drop = FALSE,
        !.is_emergency_stop = FALSE,
        !.control_accelerator = 128,
        !.control_turn = 128,
        !.control_byte1 = 128,
        !.control_byte2 = 128]

hover(self, log) == send_flight_command(HoverAssign(self), log)

----------------------------------------------------------------------------
(* Method-level specification: a connected DroneTester in an arbitrary     *)
(* state of its axes and mode flags, on which one method is called.        *)

\* values beyond the two ends of the clamp range 1..255
Below == (1 - MaxExcess) .. 0
Above == 256 .. (255 + MaxExcess)

\* roll (control_byte1), pitch (control_byte2) and yaw (control_turn) inputs:
\* one value inside the clamp range each, and the values beyond either end
RollInputs == Below \cup {1} \cup Above
PitchInputs == Below \cup {128} \cup Above
YawInputs == Below \cup {255} \cup Above

\* throttle (control_accelerator) inputs: the remapped value 1, its
\* neighbours, the top of the byte range and values outside the byte range
ThrottleInputs == ((0 - MaxExcess) .. 2) \cup {255} \cup (256 .. (256 + MaxExcess))

\* a cv2.VideoCapture: the source it was created for and what isOpened()
\* returns; NoCap is None
NoCap == [src |-> "none", opened |-> FALSE]

\* the viewers are not part of a DroneTester run: no viewer exists
ViewerAtRest ==
    /\ viewer = [kind |-> "none", cap |-> NoCap, current_cam |-> 0]
    /\ v_pc = "none"
    /\ reconnect_attempts = 0
    /\ v_op = "none"
    /\ events = <<>>
    /\ raised = FALSE
    /\ before = [kind |-> "none", cap |-> NoCap, current_cam |-> 0]
    /\ failed_opens = 0
    /\ empty_run = 0
    /\ reopen_at = 0
    /\ live_caps = 0

\* self.heartbeat_thread is None, or else the number of the thread it holds
NoThread == 0

InitTester ==
    [socket |-> "None", running |-> FALSE, heartbeat_thread |-> NoThread,
     control_accelerator |-> 128, control_byte1 |-> 128,
     control_byte2 |-> 128, control_turn |-> 128,
     is_fast_fly |-> FALSE, is_fast_drop |-> FALSE,
     is_emergency_stop |-> FALSE, is_gyro_correction |-> FALSE,
     is_no_head_mode |-> FALSE, is_fast_return |-> FALSE,
     is_unlock |-> FALSE, is_circle_turn_end |-> FALSE]

NoCommand == <<>>

\* the main thread before main() runs
MainAtRest ==
    /\ mode = 0 /\ phase = "prompt" /\ step = 0 /\ call = "idle"
    /\ pc = "none" /\ iter = 0 /\ finished = "none" /\ interrupts = 0
    /\ preempted = "none" /\ outcome = "none"

InitCodec ==
    /\ \E r \in RollInputs, p \in PitchInputs, y \in YawInputs,
          t \in ThrottleInputs,
          ff \in BOOLEAN, fd \in BOOLEAN, es \in BOOLEAN, gc \in BOOLEAN,
          nh \in BOOLEAN, fr \in BOOLEAN, ul \in BOOLEAN, ce \in BOOLEAN :
          tester = [InitTester EXCEPT
                       !.socket = "open",
                       !.control_byte1 = r, !.control_byte2 = p,
                       !.control_turn = y, !.control_accelerator = t,
                       !.is_fast_fly = ff, !.is_fast_drop = fd,
                       !.is_emergency_stop = es, !.is_gyro_correction = gc,
                       !.is_no_head_mode = nh, !.is_fast_return = fr,
                       !.is_unlock = ul, !.is_circle_turn_end = ce]
    /\ given = tester
    /\ device_type = ADVANCED
    /\ command = NoCommand
    /\ sent = <<>>
    /\ op = "none"
    /\ MainAtRest
    /\ hb_pc = <<>> /\ hb_last = <<>>
    /\ ViewerAtRest

\* a caller invokes build_flight_command(device_type) once
BuildFlightCommand(dtype) ==
    /\ op = "none"
    /\ LET b == build_flight_command(tester, dtype)
       IN  /\ tester' = b.self
           /\ command' = b.full_command
    /\ device_type' = dtype
    /\ op' = "build"
    /\ UNCHANGED <<given, sent, mainVars, hbVars, viewVars>>

BuildAdvanced == BuildFlightCommand(ADVANCED)
BuildStandard == BuildFlightCommand(STANDARD)

\* a caller invokes hover() once
Hover ==
    /\ op = "none"
    /\ LET h == hover(tester, <<>>)
       IN  /\ tester' = h.self
           /\ sent' = h.log
    /\ op' = "hover"
    /\ UNCHANGED <<given, device_type, command, mainVars, hbVars, viewVars>>

NextCodec == BuildAdvanced \/ BuildStandard \/ Hover

SpecCodec == InitCodec /\ [][NextCodec]_vars

\* the same, for objects whose roll, pitch and yaw are already inside the
\* clamp range (the throttle and the flags are arbitrary): what reaches the
\* wire is the payload as given
InitPayload ==
    /\ InitCodec
    /\ tester.control_byte1 \in 1 .. 255
    /\ tester.control_byte2 \in 1 .. 255
    /\ tester.control_turn \in 1 .. 255

NextPayload == BuildAdvanced \/ BuildStandard

SpecPayload == InitPayload /\ [][NextPayload]_vars

\* a send_flight_command() that sends the packet built last, when there
\* is one
SendFlightCommandLatched ==
    /\ op \in {"none", "build"}
    /\ LET r == send_flight_command(tester, <<>>)
       IN  /\ tester' = r.self
           /\ sent' = IF op = "build" THEN <<command>> ELSE r.log
    /\ op' = "send"
    /\ UNCHANGED <<given, device_type, command, mainVars, hbVars, viewVars>>

\* a caller invokes send_flight_command() once, on a fresh object or after
\* it has built a packet with build_flight_command(device_type)
SendFlightCommand ==
    /\ op \in {"none", "build"}
    /\ LET r == send_flight_command(tester, <<>>)
       IN  /\ tester' = r.self
           /\ sent' = r.log
    /\ op' = "send"
    /\ UNCHANGED <<given, device_type, command, mainVars, hbVars, viewVars>>

NextSend == BuildAdvanced \/ BuildStandard \/ SendFlightCommand

SpecSend == InitPayload /\ [][NextSend]_vars

----------------------------------------------------------------------------
(* The program: main() runs one of four tests on a fresh DroneTester,      *)
(* next to the heartbeat thread the test starts.                           *)

\* the calls each test makes in its body, in order: 1 is
\* test_fastfly_fastdrop_sequence, 2 test_individual_fast_commands,
\* 3 test_quick_tap_commands, 4 the emergency stop test of main()
Script(m) ==
    CASE m = 1 -> <<"start_heartbeat", "takeoff", "hover", "hover_loop",
                    "land", "hover">>
      [] m = 2 -> <<"start_heartbeat", "takeoff", "hover", "land">>
      [] m = 3 -> <<"start_heartbeat", "tap_fly", "tap_drop">>
      [] m = 4 -> <<"start_heartbeat", "emergency">>

\* takeoff_fast_fly, land_fast_drop, emergency_stop
Bursts == {"takeoff", "land", "emergency"}
\* the two quick taps of test_quick_tap_commands
Taps == {"tap_fly", "tap_drop"}

\* the flag a burst or a tap raises
BurstFlag(c) ==
    CASE c \in {"takeoff", "tap_fly"} -> "is_fast_fly"
      [] c \in {"land", "tap_drop"} -> "is_fast_drop"
      [] c = "emergency" -> "is_emergency_stop"

\* self.is_... = True at the head of a burst
RaiseFlag(self, c) == [self EXCEPT ![BurstFlag(c)] = TRUE]

\* a burst that forgets to reset its flag
ResetFlagForgotten(self, c) == self

\* self.is_... = False after the timed loop of a burst
ResetFlag(self, c) == [self EXCEPT ![BurstFlag(c)] = FALSE]

\* first position of a call
Entry(c) ==
    CASE c = "start_heartbeat" -> "start"
      [] c \in Bursts \cup Taps -> "set"
      [] c = "hover" -> "assign"
      [] c = "hover_loop" -> "loop"

heartbeat_cmd == <<1, 1>>

Init ==
    /\ tester = InitTester
    /\ sent = <<>>
    /\ given = InitTester
    /\ device_type = ADVANCED
    /\ command = NoCommand
    /\ op = "none"
    /\ MainAtRest
    /\ hb_pc = <<>> /\ hb_last = <<>>
    /\ ViewerAtRest

\* the main thread is inside call c
InCall(c) == phase \in {"try", "except"} /\ call = c

\* self.send_flight_command() at the current position of the main thread
FlightSend ==
    LET r == send_flight_command(tester, sent)
    IN  /\ tester' = r.self
        /\ sent' = r.log

\* the current call returns: in the body the next call follows, in the
\* except clause the finally clause follows
Return ==
    /\ finished' = call
    /\ call' = "idle"
    /\ iter' = 0
    /\ IF phase = "except"
       THEN phase' = "cleanup" /\ pc' = "stop" /\ outcome' = "handled"
       ELSE phase' = phase /\ pc' = "none" /\ outcome' = outcome

\* start_heartbeat(): sets the run flag, creates and starts a new thread and
\* keeps it in self.heartbeat_thread, whatever was there
start_heartbeat(self, threads) ==
    [self |-> [self EXCEPT !.running = TRUE,
                           !.heartbeat_thread = Len(threads) + 1],
     threads |-> Append(threads, "test")]

\* a loop test that is inverted
LoopTestInverted(self) == IF ~self.running THEN "send" ELSE "exited"

\* while self.running: where heartbeat_loop goes from its test
LoopTest(self) == IF self.running THEN "send" ELSE "exited"

\* choice = input(...)
Choose(m) ==
    /\ phase = "prompt"
    /\ mode' = m
    /\ phase' = "connect"
    /\ UNCHANGED <<tester, sent, codecVars, viewVars, hbVars, step, call, pc, iter,
                   finished, interrupts, preempted, outcome>>

\* connect() creates the socket and returns True
ConnectOk ==
    /\ phase = "connect"
    /\ tester' = [tester EXCEPT !.socket = "open"]
    /\ phase' = "try"
    /\ UNCHANGED <<sent, codecVars, viewVars, hbVars, mode, step, call, pc, iter,
                   finished, interrupts, preempted, outcome>>

\* connect() catches the exception and returns False: the test is aborted
ConnectFail ==
    /\ phase = "connect"
    /\ phase' = "done"
    /\ outcome' = "connect_failed"
    /\ UNCHANGED <<tester, sent, codecVars, viewVars, hbVars, mode, step, call, pc,
                   iter, finished, interrupts, preempted>>

\* the body of the test goes on to its next call
BeginCall ==
    /\ phase = "try" /\ call = "idle"
    /\ step < Len(Script(mode))
    /\ step' = step + 1
    /\ call' = Script(mode)[step + 1]
    /\ pc' = Entry(Script(mode)[step + 1])
    /\ iter' = 0
    /\ sent' = <<>>
    /\ finished' = "none"
    /\ UNCHANGED <<tester, codecVars, viewVars, hbVars, mode, phase, interrupts,
                   preempted, outcome>>

\* the body of the test has made its last call
EndBody ==
    /\ phase = "try" /\ call = "idle"
    /\ step = Len(Script(mode))
    /\ phase' = "cleanup"
    /\ pc' = "stop"
    /\ outcome' = "completed"
    /\ UNCHANGED <<tester, sent, codecVars, viewVars, hbVars, mode, step, call, iter,
                   finished, interrupts, preempted>>

\* start_heartbeat()
StartHeartbeat ==
    /\ InCall("start_heartbeat")
    /\ LET r == start_heartbeat(tester, hb_pc)
       IN  /\ tester' = r.self
           /\ hb_pc' = r.threads
    /\ Return
    /\ UNCHANGED <<sent, codecVars, viewVars, hb_last, mode, step, interrupts,
                   preempted>>

\* a burst or a tap raises its flag
BurstSet ==
    /\ phase \in {"try", "except"} /\ call \in Bursts \cup Taps
    /\ pc = "set"
    /\ tester' = RaiseFlag(tester, call)
    /\ pc' = "first"
    /\ UNCHANGED <<sent, codecVars, viewVars, hbVars, mode, phase, step, call, iter,
                   finished, interrupts, preempted, outcome>>

\* the send that follows the raise; a burst then enters its timed loop, a
\* tap sleeps
BurstFirstSend ==
    /\ phase \in {"try", "except"} /\ call \in Bursts \cup Taps
    /\ pc = "first"
    /\ FlightSend
    /\ pc' = IF call \in Bursts THEN "loop" ELSE "reset"
    /\ UNCHANGED <<codecVars, viewVars, hbVars, mode, phase, step, call, iter,
                   finished, interrupts, preempted, outcome>>

\* one pass of while time.time() - start_time < ...: send, sleep
BurstRepeat ==
    /\ phase \in {"try", "except"} /\ call \in Bursts
    /\ pc = "loop"
    /\ iter < MaxLoopSends
    /\ FlightSend
    /\ iter' = iter + 1
    /\ UNCHANGED <<codecVars, viewVars, hbVars, mode, phase, step, call, pc,
                   finished, interrupts, preempted, outcome>>

\* the time of the loop is up
BurstTimeUp ==
    /\ phase \in {"try", "except"} /\ call \in Bursts
    /\ pc = "loop"
    /\ pc' = "reset"
    /\ UNCHANGED <<tester, sent, codecVars, viewVars, hbVars, mode, phase, step, call,
                   iter, finished, interrupts, preempted, outcome>>

\* the burst or the tap resets its flag
BurstReset ==
    /\ phase \in {"try", "except"} /\ call \in Bursts \cup Taps
    /\ pc = "reset"
    /\ tester' = ResetFlag(tester, call)
    /\ pc' = "last"
    /\ UNCHANGED <<sent, codecVars, viewVars, hbVars, mode, phase, step, call, iter,
                   finished, interrupts, preempted, outcome>>

\* the send that follows the reset; the method returns
BurstLastSend ==
    /\ phase \in {"try", "except"} /\ call \in Bursts \cup Taps
    /\ pc = "last"
    /\ FlightSend
    /\ Return
    /\ UNCHANGED <<codecVars, viewVars, hbVars, mode, step, interrupts, preempted>>

\* hover(): the assignments
HoverAssignStep ==
    /\ InCall("hover") /\ pc = "assign"
    /\ tester' = HoverAssign(tester)
    /\ pc' = "send"
    /\ UNCHANGED <<sent, codecVars, viewVars, hbVars, mode, phase, step, call, iter,
                   finished, interrupts, preempted, outcome>>

\* hover(): the send; the method returns
HoverSend ==
    /\ InCall("hover") /\ pc = "send"
    /\ FlightSend
    /\ Return
    /\ UNCHANGED <<codecVars, viewVars, hbVars, mode, step, interrupts, preempted>>

\* one pass of the hover loop of test_fastfly_fastdrop_sequence
HoverLoopSend ==
    /\ InCall("hover_loop") /\ pc = "loop"
    /\ iter < MaxLoopSends
    /\ FlightSend
    /\ iter' = iter + 1
    /\ UNCHANGED <<codecVars, viewVars, hbVars, mode, phase, step, call, pc,
                   finished, interrupts, preempted, outcome>>

\* flight_duration has passed
HoverLoopEnd ==
    /\ InCall("hover_loop") /\ pc = "loop"
    /\ Return
    /\ UNCHANGED <<tester, sent, codecVars, viewVars, hbVars, mode, step, interrupts,
                   preempted>>

\* KeyboardInterrupt in the try block of test_fastfly_fastdrop_sequence:
\* the except clause calls emergency_stop()
InterruptHandled ==
    /\ interrupts < MaxInterrupts
    /\ phase = "try" /\ mode = 1
    /\ interrupts' = interrupts + 1
    /\ preempted' = call
    /\ phase' = "except"
    /\ call' = "emergency"
    /\ pc' = "set"
    /\ iter' = 0
    /\ sent' = <<>>
    /\ finished' = "none"
    /\ UNCHANGED <<tester, codecVars, viewVars, hbVars, mode, step, outcome>>

\* KeyboardInterrupt where no except clause catches it but a finally clause
\* runs: the try blocks of tests 2 and 3, the except clause of test 1
InterruptUnhandled ==
    /\ interrupts < MaxInterrupts
    /\ \/ phase = "try" /\ mode \in {2, 3}
       \/ phase = "except"
    /\ interrupts' = interrupts + 1
    /\ phase' = "cleanup"
    /\ call' = "idle"
    /\ pc' = "stop"
    /\ iter' = 0
    /\ outcome' = "interrupted"
    /\ UNCHANGED <<tester, sent, codecVars, viewVars, hbVars, mode, step, finished,
                   preempted>>

\* KeyboardInterrupt outside any try block: the process ends
InterruptFatal ==
    /\ interrupts < MaxInterrupts
    /\ \/ phase = "connect"
       \/ phase = "try" /\ mode = 4
       \/ phase = "cleanup"
    /\ interrupts' = interrupts + 1
    /\ phase' = "done"
    /\ outcome' = "interrupted"
    /\ UNCHANGED <<tester, sent, codecVars, viewVars, hbVars, mode, step, call, pc,
                   iter, finished, preempted>>

\* stop_heartbeat(): self.running = False
StopHeartbeat ==
    /\ phase = "cleanup" /\ pc = "stop"
    /\ tester' = [tester EXCEPT !.running = FALSE]
    /\ pc' = IF tester.heartbeat_thread # NoThread THEN "join" ELSE "close"
    /\ UNCHANGED <<sent, codecVars, viewVars, hbVars, mode, phase, step, call, iter,
                   finished, interrupts, preempted, outcome>>

\* join(timeout=2.0) returns because the thread has ended
Join ==
    /\ phase = "cleanup" /\ pc = "join"
    /\ hb_pc[tester.heartbeat_thread] = "exited"
    /\ pc' = "close"
    /\ UNCHANGED <<tester, sent, codecVars, viewVars, hbVars, mode, phase, step, call,
                   iter, finished, interrupts, preempted, outcome>>

\* join(timeout=2.0) returns because the two seconds have passed
JoinTimeout ==
    /\ phase = "cleanup" /\ pc = "join"
    /\ hb_pc[tester.heartbeat_thread] # "exited"
    /\ pc' = "close"
    /\ UNCHANGED <<tester, sent, codecVars, viewVars, hbVars, mode, phase, step, call,
                   iter, finished, interrupts, preempted, outcome>>

\* the finally clause closes the socket (tests 1 to 3; test 4 has none) and
\* the test returns
Close ==
    /\ phase = "cleanup" /\ pc = "close"
    /\ tester' = IF mode \in {1, 2, 3} /\ tester.socket # "None"
                 THEN [tester EXCEPT !.socket = "closed"]
                 ELSE tester
    /\ phase' = "done"
    /\ pc' = "none"
    /\ UNCHANGED <<sent, codecVars, viewVars, hbVars, mode, step, call, iter,
                   finished, interrupts, preempted, outcome>>

\* heartbeat_loop of thread i: while self.running
HeartbeatTest(i) ==
    /\ phase # "done"
    /\ i \in DOMAIN hb_pc
    /\ hb_pc[i] = "test"
    /\ hb_pc' = [hb_pc EXCEPT ![i] = LoopTest(tester)]
    /\ UNCHANGED <<tester, sent, codecVars, viewVars, mainVars, hb_last>>

\* heartbeat_loop of thread i: self.send_heartbeat()
HeartbeatSend(i) ==
    /\ phase # "done"
    /\ i \in DOMAIN hb_pc
    /\ hb_pc[i] = "send"
    /\ hb_last' = LET l == send_command(tester, <<>>, heartbeat_cmd)
                  IN  IF l = <<>> THEN hb_last ELSE l[1]
    /\ hb_pc' = [hb_pc EXCEPT ![i] = "sleep"]
    /\ UNCHANGED <<tester, sent, codecVars, viewVars, mainVars>>

\* heartbeat_loop of thread i: time.sleep(1)
HeartbeatSleep(i) ==
    /\ phase # "done"
    /\ i \in DOMAIN hb_pc
    /\ hb_pc[i] = "sleep"
    /\ hb_pc' = [hb_pc EXCEPT ![i] = "test"]
    /\ UNCHANGED <<tester, sent, codecVars, viewVars, mainVars, hb_last>>

\* one step of heartbeat thread i
Heartbeat(i) == HeartbeatTest(i) \/ HeartbeatSend(i) \/ HeartbeatSleep(i)

Next ==
    \/ \E m \in 1 .. 4 : Choose(m)
    \/ ConnectOk \/ ConnectFail
    \/ BeginCall \/ EndBody
    \/ StartHeartbeat
    \/ BurstSet \/ BurstFirstSend \/ BurstRepeat \/ BurstTimeUp
    \/ BurstReset \/ BurstLastSend
    \/ HoverAssignStep \/ HoverSend \/ HoverLoopSend \/ HoverLoopEnd
    \/ InterruptHandled \/ InterruptUnhandled \/ InterruptFatal
    \/ StopHeartbeat \/ Join \/ JoinTimeout \/ Close
    \/ \E i \in DOMAIN hb_pc : HeartbeatTest(i)
    \/ \E i \in DOMAIN hb_pc : HeartbeatSend(i)
    \/ \E i \in DOMAIN hb_pc : HeartbeatSleep(i)

Spec == Init /\ [][Next]_vars

\* the threads are scheduled: a heartbeat thread that can take a step
\* eventually takes one
FairSpec == Spec /\ \A i \in 1 .. MaxStarts : WF_vars(Heartbeat(i))

----------------------------------------------------------------------------
(* The heartbeat interface called on its own: a connected DroneTester on   *)
(* which a caller invokes start_heartbeat() and stop_heartbeat() in any    *)
(* order, next to the threads these start.                                 *)

InitHeartbeat ==
    /\ tester = [InitTester EXCEPT !.socket = "open"]
    /\ sent = <<>>
    /\ given = tester
    /\ device_type = ADVANCED
    /\ command = NoCommand
    /\ op = "none"
    /\ mode = 0 /\ phase = "api" /\ step = 0 /\ call = "idle"
    /\ pc = "none" /\ iter = 0 /\ finished = "none" /\ interrupts = 0
    /\ preempted = "none" /\ outcome = "none"
    /\ hb_pc = <<>> /\ hb_last = <<>>
    /\ ViewerAtRest

\* the caller invokes start_heartbeat()
CallStartHeartbeat ==
    /\ phase = "api" /\ call = "idle"
    /\ Len(hb_pc) < MaxStarts
    /\ LET r == start_heartbeat(tester, hb_pc)
       IN  /\ tester' = r.self
           /\ hb_pc' = r.threads
    /\ finished' = "start_heartbeat"
    /\ UNCHANGED <<sent, codecVars, viewVars, hb_last, mode, phase, step, call, pc,
                   iter, interrupts, preempted, outcome>>

\* the caller invokes stop_heartbeat(): self.running = False, then the join
\* when a thread is held
CallStopHeartbeat ==
    /\ phase = "api" /\ call = "idle"
    /\ tester' = [tester EXCEPT !.running = FALSE]
    /\ IF tester.heartbeat_thread # NoThread
       THEN call' = "stop_heartbeat" /\ pc' = "join" /\ finished' = "none"
       ELSE call' = "idle" /\ pc' = "none" /\ finished' = "stop_heartbeat"
    /\ UNCHANGED <<sent, codecVars, viewVars, hbVars, mode, phase, step, iter,
                   interrupts, preempted, outcome>>

\* the join of stop_heartbeat() returns: the thread has ended, or the two
\* seconds have passed
CallJoinReturns ==
    /\ phase = "api" /\ call = "stop_heartbeat" /\ pc = "join"
    /\ call' = "idle"
    /\ pc' = "none"
    /\ finished' = "stop_heartbeat"
    /\ UNCHANGED <<tester, sent, codecVars, viewVars, hbVars, mode, phase, step, iter,
                   interrupts, preempted, outcome>>

NextHeartbeat ==
    \/ CallStartHeartbeat \/ CallStopHeartbeat \/ CallJoinReturns
    \/ \E i \in DOMAIN hb_pc : HeartbeatTest(i)
    \/ \E i \in DOMAIN hb_pc : HeartbeatSend(i)
    \/ \E i \in DOMAIN hb_pc : HeartbeatSleep(i)

SpecHeartbeat == InitHeartbeat /\ [][NextHeartbeat]_vars

----------------------------------------------------------------------------
(* The viewers: CameraViewer of Hand_Landmark_Processing.py (RTSP with a   *)
(* webcam fallback) and DroneViewer of Test_Cameras.py (RTSP only). Both   *)
(* have the same switch_camera() and the same run() loop around their own  *)
(* open_stream().                                                          *)

CAMERA_1_CMD == <<6, 1>>
CAMERA_2_CMD == <<6, 2>>
MAX_RECONNECTS == 5

\* if reconnect_attempts >= 8: the count at which the read path reopens
REOPEN_AFTER == 8

Capture(src, ok) == [src |-> src, opened |-> ok]

\* what the three cv2.VideoCapture constructions of one open_stream() call
\* would give: RTSP with CAP_FFMPEG, RTSP with the default backend, webcam 0
Outcomes == [ffmpeg : BOOLEAN, default : BOOLEAN, webcam : BOOLEAN]

\* the object after the first assignments of __init__, before open_stream();
\* current_cam is 0 while the attribute is not set. DroneViewer has no
\* is_drone attribute.
NewViewer(kind) ==
    IF kind = "CameraViewer"
    THEN [kind |-> kind, cap |-> NoCap, is_drone |-> FALSE, current_cam |-> 0]
    ELSE [kind |-> kind, cap |-> NoCap, current_cam |-> 0]

OpenEvent(c) == [ev |-> "open", src |-> c.src, ok |-> c.opened, data |-> <<>>]
SendEvent(d, ok) == [ev |-> "send", src |-> "udp", ok |-> ok, data |-> d]
OpenEvents(cs) == [i \in 1 .. Len(cs) |-> OpenEvent(cs[i])]

\* udp_send(raw_bytes): one sendto on a socket of its own, closed in the
\* finally clause; there is no except clause, so an error of sendto (ok
\* false) leaves udp_send as an exception
udp_send(raw_bytes, ok) ==
    [events |-> <<SendEvent(raw_bytes, ok)>>, raised |-> ~ok]

\* a primary attempt that tries the default backend whatever the first gave
PrimaryBothBackends(o) ==
    <<Capture("rtsp_ffmpeg", o.ffmpeg), Capture("rtsp_default", o.default)>>

\* the RTSP attempts of open_stream(): CAP_FFMPEG, then the default backend
\* if that did not open; the captures created, in order
Primary(o) ==
    IF o.ffmpeg
    THEN <<Capture("rtsp_ffmpeg", TRUE)>>
    ELSE <<Capture("rtsp_ffmpeg", FALSE), Capture("rtsp_default", o.default)>>

\* an open_stream() that returns when nothing opened
open_streamNoRaise(self, o) ==
    LET p == Primary(o)
        cap == p[Len(p)]
        w == Capture("webcam", o.webcam)
    IN  IF self.kind = "CameraViewer"
        THEN IF cap.opened
             THEN [self |-> [self EXCEPT !.cap = cap, !.is_drone = TRUE],
                   raised |-> FALSE, created |-> p]
             ELSE [self |-> [self EXCEPT !.cap = w, !.is_drone = FALSE],
                   raised |-> FALSE, created |-> Append(p, w)]
        ELSE [self |-> [self EXCEPT !.cap = cap],
              raised |-> FALSE, created |-> p]

\* open_stream(): the old capture is released, self.cap is replaced by each
\* capture created; CameraViewer falls back to the webcam and raises when
\* that does not open either, DroneViewer raises when RTSP did not open
open_stream(self, o) ==
    LET p == Primary(o)
        cap == p[Len(p)]
        w == Capture("webcam", o.webcam)
    IN  IF self.kind = "CameraViewer"
        THEN IF cap.opened
             THEN [self |-> [self EXCEPT !.cap = cap, !.is_drone = TRUE],
                   raised |-> FALSE, created |-> p]
             ELSE IF w.opened
                  THEN [self |-> [self EXCEPT !.cap = w, !.is_drone = FALSE],
                        raised |-> FALSE, created |-> Append(p, w)]
                  ELSE [self |-> [self EXCEPT !.cap = w],
                        raised |-> TRUE, created |-> Append(p, w)]
        ELSE [self |-> [self EXCEPT !.cap = cap],
              raised |-> ~cap.opened, created |-> p]

\* a switch_camera() without the drone-only test
switch_cameraUnguarded(self, ok, o1, o2) ==
    LET new_cam == IF self.current_cam = 1 THEN 2 ELSE 1
        cmd == IF new_cam = 1 THEN CAMERA_1_CMD ELSE CAMERA_2_CMD
        u == udp_send(cmd, ok)
        r1 == open_stream(self, o1)
        r2 == open_stream(r1.self, o2)
        last == IF r1.raised THEN r2 ELSE r1
    IN  IF u.raised
        THEN [self |-> self, events |-> u.events, calls |-> 0,
              raised |-> FALSE, error |-> TRUE]
        ELSE [self |-> [last.self EXCEPT !.current_cam = new_cam],
              events |-> u.events \o OpenEvents(r1.created)
                            \o (IF r1.raised THEN OpenEvents(r2.created)
                                ELSE <<>>),
              calls |-> IF r1.raised THEN 2 ELSE 1,
              raised |-> last.raised, error |-> FALSE]

\* switch_camera(): CameraViewer returns at once when not on the drone
\* feed; otherwise the select datagram, open_stream(), a second
\* open_stream() if the first raised, and the assignment of current_cam.
\* An exception of udp_send is caught nowhere in switch_camera: it leaves
\* the method (error) before anything else is done.
switch_camera(self, ok, o1, o2) ==
    IF self.kind = "CameraViewer" /\ ~self.is_drone
    THEN [self |-> self, events |-> <<>>, calls |-> 0, raised |-> FALSE,
          error |-> FALSE]
    ELSE LET new_cam == IF self.current_cam = 1 THEN 2 ELSE 1
             cmd == IF new_cam = 1 THEN CAMERA_1_CMD ELSE CAMERA_2_CMD
             u == udp_send(cmd, ok)
             r1 == open_stream(self, o1)
             r2 == open_stream(r1.self, o2)
             last == IF r1.raised THEN r2 ELSE r1
         IN  IF u.raised
             THEN [self |-> self, events |-> u.events, calls |-> 0,
                   raised |-> FALSE, error |-> TRUE]
             ELSE [self |-> [last.self EXCEPT !.current_cam = new_cam],
                   events |-> u.events \o OpenEvents(r1.created)
                                 \o (IF r1.raised THEN OpenEvents(r2.created)
                                     ELSE <<>>),
                   calls |-> IF r1.raised THEN 2 ELSE 1,
                   raised |-> last.raised, error |-> FALSE]

\* a post-processing that rotates whatever the source
PostProcessAlwaysRotate(self) == "rotate"

\* what run() does to a frame it has read: CameraViewer rotates it when
\* is_drone and mirrors it otherwise, DroneViewer always rotates
PostProcess(self) ==
    IF self.kind = "CameraViewer"
    THEN IF self.is_drone THEN "rotate" ELSE "flip"
    ELSE "rotate"

\* the captures an operation created that are opened
OpenedIn(evs) ==
    Cardinality({i \in DOMAIN evs : evs[i].ev = "open" /\ evs[i].ok})

\* an open_stream() that keeps the old capture open
ReleasedByNothing(self, evs) == 0

\* the opened captures an operation released: open_stream() begins with
\* self.cap.release(), so one if it held an opened capture and open_stream()
\* was called (a capture was created)
ReleasedBy(self, evs) ==
    IF self.cap.opened /\ \E i \in DOMAIN evs : evs[i].ev = "open"
    THEN 1 ELSE 0

\* the opened captures left when an operation that began with n is over
LiveAfter(n, self, evs) == (n - ReleasedBy(self, evs)) + OpenedIn(evs)

\* the cleanup after the loop of run(): self.cap.release()
Released(self) == [self EXCEPT !.cap.opened = FALSE]

TesterAtRest ==
    /\ tester = InitTester
    /\ sent = <<>>
    /\ given = InitTester
    /\ device_type = ADVANCED
    /\ command = NoCommand
    /\ op = "none"
    /\ MainAtRest
    /\ hb_pc = <<>> /\ hb_last = <<>>

\* __main__ is about to call the constructor of one of the two viewers
InitViewer ==
    /\ TesterAtRest
    /\ viewer \in {NewViewer("CameraViewer"), NewViewer("DroneViewer")}
    /\ v_pc = "new"
    /\ reconnect_attempts = 0
    /\ v_op = "none"
    /\ events = <<>>
    /\ raised = FALSE
    /\ before = viewer
    /\ failed_opens = 0
    /\ empty_run = 0
    /\ reopen_at = 0
    /\ live_caps = 0

testerVars == <<tester, sent, codecVars, mainVars, hbVars>>

\* __init__: open_stream(), then current_cam = 1; a RuntimeError leaves
\* __init__ and ends the program ("Fatal error")
Construct(o) ==
    /\ v_pc = "new"
    /\ LET r == open_stream(viewer, o)
       IN  /\ viewer' = IF r.raised THEN r.self
                        ELSE [r.self EXCEPT !.current_cam = 1]
           /\ v_pc' = IF r.raised THEN "fatal" ELSE "top"
           /\ events' = OpenEvents(r.created)
           /\ raised' = r.raised
    /\ v_op' = "open_stream"
    /\ before' = viewer
    /\ UNCHANGED <<testerVars, reconnect_attempts, failed_opens, empty_run,
                   reopen_at>>
    /\ live_caps' = LiveAfter(live_caps, viewer, events')

\* while True, capture opened: on to the read
TopOpened ==
    /\ v_pc = "top"
    /\ viewer.cap.opened
    /\ v_pc' = "read"
    /\ UNCHANGED <<testerVars, viewer, reconnect_attempts, v_op, events,
                   raised, before, failed_opens, empty_run, reopen_at>>
    /\ UNCHANGED live_caps

\* capture not opened and the counter passes MAX_RECONNECTS: break, cleanup
TopExhausted ==
    /\ v_pc = "top"
    /\ ~viewer.cap.opened
    /\ reconnect_attempts + 1 > MAX_RECONNECTS
    /\ reconnect_attempts' = reconnect_attempts + 1
    /\ viewer' = Released(viewer)
    /\ v_pc' = "exhausted"
    /\ v_op' = "exit"
    /\ before' = viewer
    /\ events' = <<>>
    /\ UNCHANGED <<testerVars, raised, failed_opens, empty_run, reopen_at>>
    /\ live_caps' = live_caps - (IF viewer.cap.opened THEN 1 ELSE 0)

\* capture not opened: count, open_stream(); on RuntimeError continue,
\* otherwise on to the read
TopReconnect(o) ==
    /\ v_pc = "top"
    /\ ~viewer.cap.opened
    /\ reconnect_attempts + 1 <= MAX_RECONNECTS
    /\ reconnect_attempts' = reconnect_attempts + 1
    /\ LET r == open_stream(viewer, o)
       IN  /\ viewer' = r.self
           /\ v_pc' = IF r.raised THEN "top" ELSE "read"
           /\ events' = OpenEvents(r.created)
           /\ raised' = r.raised
           /\ failed_opens' = IF r.raised THEN failed_opens + 1 ELSE 0
    /\ v_op' = "reconnect"
    /\ before' = viewer
    /\ UNCHANGED <<testerVars, empty_run, reopen_at>>
    /\ live_caps' = LiveAfter(live_caps, viewer, events')

\* self.cap.read() returns a frame: the counter is reset, the frame is
\* shown and the key is polled
ReadFrame ==
    /\ v_pc = "read"
    /\ reconnect_attempts' = 0
    /\ v_pc' = "key"
    /\ v_op' = "read"
    /\ failed_opens' = 0
    /\ empty_run' = 0
    /\ reopen_at' = 0
    /\ UNCHANGED <<testerVars, viewer, events, raised, before>>
    /\ UNCHANGED live_caps

\* self.cap.read() returns no frame and the counter stays below 8
ReadEmpty ==
    /\ v_pc = "read"
    /\ reconnect_attempts + 1 < REOPEN_AFTER
    /\ reconnect_attempts' = reconnect_attempts + 1
    /\ empty_run' = empty_run + 1
    /\ v_pc' = "top"
    /\ v_op' = "read"
    /\ UNCHANGED <<testerVars, viewer, events, raised, before, failed_opens,
                   reopen_at>>
    /\ UNCHANGED live_caps

\* self.cap.read() returns no frame and the counter reaches 8:
\* open_stream(); the counter is reset only if that did not raise
ReadEmptyReopen(o) ==
    /\ v_pc = "read"
    /\ reconnect_attempts + 1 >= REOPEN_AFTER
    /\ LET r == open_stream(viewer, o)
       IN  /\ viewer' = r.self
           /\ events' = OpenEvents(r.created)
           /\ raised' = r.raised
           /\ reconnect_attempts' =
                  IF r.raised THEN reconnect_attempts + 1 ELSE 0
    /\ reopen_at' = empty_run + 1
    /\ empty_run' = 0
    /\ v_pc' = "top"
    /\ v_op' = "reopen"
    /\ before' = viewer
    /\ UNCHANGED <<testerVars, failed_opens>>
    /\ live_caps' = LiveAfter(live_caps, viewer, events')

\* key 'q': break, cleanup
KeyQuit ==
    /\ v_pc = "key"
    /\ viewer' = Released(viewer)
    /\ v_pc' = "quit"
    /\ v_op' = "exit"
    /\ before' = viewer
    /\ events' = <<>>
    /\ UNCHANGED <<testerVars, reconnect_attempts, raised, failed_opens,
                   empty_run, reopen_at>>
    /\ live_caps' = live_caps - (IF viewer.cap.opened THEN 1 ELSE 0)

\* key 'c': switch_camera(); an exception that leaves it leaves run() too
\* and ends the program in __main__ ("Fatal error")
KeySwitch(ok, o1, o2) ==
    /\ v_pc = "key"
    /\ LET r == switch_camera(viewer, ok, o1, o2)
       IN  /\ viewer' = r.self
           /\ events' = r.events
           /\ raised' = r.raised
           /\ v_pc' = IF r.error THEN "fatal" ELSE "top"
    /\ v_op' = "switch_camera"
    /\ before' = viewer
    /\ UNCHANGED <<testerVars, reconnect_attempts, failed_opens, empty_run,
                   reopen_at>>
    /\ live_caps' = LiveAfter(live_caps, viewer, events')

\* any other key, or none
KeyOther ==
    /\ v_pc = "key"
    /\ v_pc' = "top"
    /\ v_op' = "key"
    /\ UNCHANGED <<testerVars, viewer, reconnect_attempts, events, raised,
                   before, failed_opens, empty_run, reopen_at>>
    /\ UNCHANGED live_caps

NextViewer ==
    \/ \E o \in Outcomes : Construct(o)
    \/ TopOpened
    \/ TopExhausted
    \/ \E o \in Outcomes : TopReconnect(o)
    \/ ReadFrame
    \/ ReadEmpty
    \/ \E o \in Outcomes : ReadEmptyReopen(o)
    \/ KeyQuit
    \/ \E ok \in BOOLEAN, o1, o2 \in Outcomes : KeySwitch(ok, o1, o2)
    \/ KeyOther

SpecViewer == InitViewer /\ [][NextViewer]_vars

\* run() is a sequential loop: while it has a step to take it takes one
FairSpecViewer == SpecViewer /\ WF_vars(NextViewer)

----------------------------------------------------------------------------
(* Reading a packet: helpers of the properties below *)

\* bit k of byte b
Bit(b, k) == (b \div (2 ^ k)) % 2
Flag(v) == IF v THEN 1 ELSE 0

\* XOR of two bytes as the sum of the bits in which they differ
BitXor8(a, b) ==
    LET D(k) == IF Bit(a, k) # Bit(b, k) THEN 2 ^ k ELSE 0
    IN  D(0) + D(1) + D(2) + D(3) + D(4) + D(5) + D(6) + D(7)

Xor8Table == [a \in 0 .. 255 |-> [b \in 0 .. 255 |-> BitXor8(a, b)]]
Xor8(a, b) == Xor8Table[a][b]

IsPacket(c) == c \in Seq(0 .. 255)

Built(dtype) == op = "build" /\ device_type = dtype

\* the axis values the claims call post-clamp, from the values given
PostClamp(v) == IF v < 1 THEN 1 ELSE IF v > 255 THEN 255 ELSE v
PostRemap(t) == IF t = 1 THEN 0 ELSE t

\* the flags byte of the advanced layout, bit by bit
AdvancedFlagsAre(b, g) ==
    /\ Bit(b, 0) = Flag(g.is_fast_fly)
    /\ Bit(b, 1) = Flag(g.is_fast_drop)
    /\ Bit(b, 2) = Flag(g.is_emergency_stop)
    /\ Bit(b, 3) = Flag(g.is_circle_turn_end)
    /\ Bit(b, 4) = Flag(g.is_no_head_mode)
    /\ Bit(b, 5) = Flag(g.is_fast_return \/ g.is_unlock)
    /\ Bit(b, 6) = 0
    /\ Bit(b, 7) = Flag(g.is_gyro_correction)

\* the two flags bytes of the standard layout, bit by bit
StandardFlagsAre(b5, b6, g) ==
    /\ Bit(b5, 0) = Flag(g.is_fast_fly \/ g.is_fast_drop)
    /\ Bit(b5, 1) = Flag(g.is_emergency_stop)
    /\ Bit(b5, 2) = Flag(g.is_gyro_correction)
    /\ Bit(b5, 3) = Flag(g.is_circle_turn_end)
    /\ \A k \in 4 .. 7 : Bit(b5, k) = 0
    /\ Bit(b6, 0) = Flag(g.is_no_head_mode)
    /\ \A k \in 1 .. 7 : Bit(b6, k) = 0

----------------------------------------------------------------------------
(* C1 *)

\* C1 as stated: the advanced packet is the 9 bytes
\* {3, 102, b1, b2, throttle, yaw, flags, checksum, 153} whose axis bytes
\* are the post-clamp axis values, for every integer axis input.
C1_AsStated ==
    Built(ADVANCED) =>
        /\ Len(command) = 9
        /\ command[1] = 3 /\ command[2] = 102 /\ command[9] = 153
        /\ command[3] = PostClamp(given.control_byte1)
        /\ command[4] = PostClamp(given.control_byte2)
        /\ command[5] = PostRemap(given.control_accelerator)
        /\ command[6] = PostClamp(given.control_turn)
        /\ AdvancedFlagsAre(command[7], given)

\* C1 (amended): for every combination of mode flags and every integer roll,
\* pitch, throttle, yaw the advanced packet is exactly 9 bytes
\* {3, 102, b1, b2, throttle, yaw, flags, checksum, 153}; b1, b2, yaw are
\* the post-clamp roll, pitch, yaw, the throttle byte is the low eight bits
\* of the post-remap throttle (the value itself inside 0..255), and flags has
\* bit0=fastFly, bit1=fastDrop, bit2=emergencyStop, bit3=circleTurnEnd,
\* bit4=noHeadMode, bit5=(fastReturn OR unlock), bit6=0, bit7=gyroCorrection.
C1_AdvancedLayout ==
    Built(ADVANCED) =>
        /\ Len(command) = 9
        /\ IsPacket(command)
        /\ command[1] = 3 /\ command[2] = 102 /\ command[9] = 153
        /\ command[3] = PostClamp(given.control_byte1)
        /\ command[4] = PostClamp(given.control_byte2)
        /\ command[5] = PostRemap(given.control_accelerator) % 256
        /\ (given.control_accelerator \in 0 .. 255 =>
                command[5] = PostRemap(given.control_accelerator))
        /\ command[6] = PostClamp(given.control_turn)
        /\ AdvancedFlagsAre(command[7], given)

\* an advanced packet built from out-of-range axes with the aliased bit and
\* the top bit set
C1_Witness ==
    /\ Built(ADVANCED)
    /\ given.control_byte1 < 1
    /\ given.control_turn > 255
    /\ given.control_accelerator > 255
    /\ given.is_unlock /\ ~given.is_fast_return
    /\ given.is_gyro_correction
    /\ command[7] = 160

----------------------------------------------------------------------------
(* C2 *)

\* C2: the standard packet is exactly 21 bytes {3, 102, 20, b1, b2,
\* throttle, yaw, flags5, flags6, ten zero bytes, checksum, 153}; flags5 has
\* bit0=(fastFly OR fastDrop), bit1=emergencyStop, bit2=gyroCorrection,
\* bit3=circleTurnEnd, flags6 has bit0=noHeadMode, every other flag bit is 0
\* (fastReturn and unlock are not encoded). The throttle byte is the
\* post-remap throttle, reduced to its low eight bits outside 0..255.
C2_StandardLayout ==
    Built(STANDARD) =>
        /\ Len(command) = 21
        /\ IsPacket(command)
        /\ command[1] = 3 /\ command[2] = 102 /\ command[3] = 20
        /\ command[21] = 153
        /\ command[4] = PostClamp(given.control_byte1)
        /\ command[5] = PostClamp(given.control_byte2)
        /\ command[6] = PostRemap(given.control_accelerator) % 256
        /\ (given.control_accelerator \in 0 .. 255 =>
                command[6] = PostRemap(given.control_accelerator))
        /\ command[7] = PostClamp(given.control_turn)
        /\ StandardFlagsAre(command[8], command[9], given)
        /\ \A i \in 10 .. 19 : command[i] = 0

\* a standard packet with every flag of the object set
C2_Witness ==
    /\ Built(STANDARD)
    /\ given.is_fast_drop /\ ~given.is_fast_fly
    /\ given.is_emergency_stop /\ given.is_gyro_correction
    /\ given.is_circle_turn_end /\ given.is_no_head_mode
    /\ given.is_fast_return /\ given.is_unlock
    /\ command[8] = 15 /\ command[9] = 1

----------------------------------------------------------------------------
(* C3 *)

\* C3: the checksum byte of every packet is the 8-bit XOR of the payload
\* bytes placed in the same packet: b1^b2^throttle^yaw^flags (advanced),
\* flags5^(b2^b1^throttle^yaw)^flags6 (standard), also when throttle lies
\* outside 0..255 before masking.
C3_ChecksumOfPayload ==
    /\ Built(ADVANCED) =>
          command[8] =
              Xor8(Xor8(Xor8(Xor8(command[3], command[4]), command[5]),
                        command[6]), command[7])
    /\ Built(STANDARD) =>
          command[20] =
              Xor8(Xor8(command[8],
                        Xor8(Xor8(Xor8(command[5], command[4]), command[6]),
                             command[7])),
                   command[9])

\* a packet built from a negative throttle, whose checksum is taken before
\* the mask
C3_Witness ==
    /\ op = "build"
    /\ given.control_accelerator < 0
    /\ given.is_gyro_correction /\ given.is_no_head_mode
    /\ command[Len(command) - 1] # 0

----------------------------------------------------------------------------
(* C4 *)

\* the positions of b1, b2, throttle, yaw in the packet of a layout
AxisAt(dtype) == IF dtype = ADVANCED THEN 3 ELSE 4

\* C4: roll, pitch and yaw are clamped into [1,255] before encoding (0 is
\* sent as 1, 256 as 255) and the clamped values are kept in the object;
\* throttle 1 is remapped to 0, every throttle in 2..255 is encoded
\* unchanged, and no other throttle value is changed in the object (no range
\* clamp: 0, negative values and values above 255 are kept as they are).
C4_ClampAndRemap ==
    op = "build" =>
        LET i == AxisAt(device_type)
        IN  /\ \A ax \in {<<"control_byte1", i>>, <<"control_byte2", i + 1>>,
                          <<"control_turn", i + 3>>} :
                   LET v == given[ax[1]]
                   IN  /\ (v < 1 => command[ax[2]] = 1)
                       /\ (v > 255 => command[ax[2]] = 255)
                       /\ (v \in 1 .. 255 => command[ax[2]] = v)
                       /\ tester[ax[1]] = command[ax[2]]
            /\ (given.control_accelerator = 1 =>
                   command[i + 2] = 0 /\ tester.control_accelerator = 0)
            /\ (given.control_accelerator \in 2 .. 255 =>
                   command[i + 2] = given.control_accelerator)
            /\ (given.control_accelerator # 1 =>
                   tester.control_accelerator = given.control_accelerator)

\* roll below the range, yaw above it and throttle 1, encoded
C4_Witness ==
    /\ op = "build"
    /\ given.control_byte1 = 0 /\ given.control_turn = 256
    /\ given.control_accelerator = 1
    /\ command[AxisAt(device_type)] = 1
    /\ command[AxisAt(device_type) + 3] = 255
    /\ command[AxisAt(device_type) + 2] = 0
----------------------------------------------------------------------------
(* C5 *)

\* the mode flags of an object
FlagNames ==
    {"is_fast_fly", "is_fast_drop", "is_emergency_stop", "is_gyro_correction",
     "is_no_head_mode", "is_fast_return", "is_unlock", "is_circle_turn_end"}
AxisNames ==
    {"control_byte1", "control_byte2", "control_accelerator", "control_turn"}

\* the objects that differ from g in their mode flags only
FlagVariants(g) ==
    {[f \in DOMAIN g |-> IF f \in FlagNames THEN a[f] ELSE g[f]] :
        a \in [FlagNames -> BOOLEAN]}

InClampRange(g) ==
    /\ g.control_byte1 \in 1 .. 255
    /\ g.control_byte2 \in 1 .. 255
    /\ g.control_turn \in 1 .. 255

\* C5 as stated: on roll, pitch, yaw in [1,255] two different flag states
\* never produce the same packet, in either layout.
C5_AsStated ==
    (op = "build" /\ InClampRange(given)) =>
        \A other \in FlagVariants(given) :
            build_flight_command(other, device_type).full_command = command
                => other = given

\* what a receiver reads from the packet of either layout
DecodeAdvanced(c) ==
    [control_byte1 |-> c[3], control_byte2 |-> c[4],
     control_accelerator |-> c[5], control_turn |-> c[6],
     fast_fly |-> Bit(c[7], 0) = 1, fast_drop |-> Bit(c[7], 1) = 1,
     emergency_stop |-> Bit(c[7], 2) = 1,
     circle_turn_end |-> Bit(c[7], 3) = 1,
     no_head_mode |-> Bit(c[7], 4) = 1,
     fast_return_or_unlock |-> Bit(c[7], 5) = 1,
     gyro_correction |-> Bit(c[7], 7) = 1]

DecodeStandard(c) ==
    [control_byte1 |-> c[4], control_byte2 |-> c[5],
     control_accelerator |-> c[6], control_turn |-> c[7],
     fast_fly_or_drop |-> Bit(c[8], 0) = 1,
     emergency_stop |-> Bit(c[8], 1) = 1,
     gyro_correction |-> Bit(c[8], 2) = 1,
     circle_turn_end |-> Bit(c[8], 3) = 1,
     no_head_mode |-> Bit(c[9], 0) = 1]

\* what each layout carries of an object
CarriedAdvanced(g) ==
    [control_byte1 |-> g.control_byte1, control_byte2 |-> g.control_byte2,
     control_accelerator |-> g.control_accelerator,
     control_turn |-> g.control_turn,
     fast_fly |-> g.is_fast_fly, fast_drop |-> g.is_fast_drop,
     emergency_stop |-> g.is_emergency_stop,
     circle_turn_end |-> g.is_circle_turn_end,
     no_head_mode |-> g.is_no_head_mode,
     fast_return_or_unlock |-> (g.is_fast_return \/ g.is_unlock),
     gyro_correction |-> g.is_gyro_correction]

CarriedStandard(g) ==
    [control_byte1 |-> g.control_byte1, control_byte2 |-> g.control_byte2,
     control_accelerator |-> g.control_accelerator,
     control_turn |-> g.control_turn,
     fast_fly_or_drop |-> (g.is_fast_fly \/ g.is_fast_drop),
     emergency_stop |-> g.is_emergency_stop,
     gyro_correction |-> g.is_gyro_correction,
     circle_turn_end |-> g.is_circle_turn_end,
     no_head_mode |-> g.is_no_head_mode]

\* C5 (amended): for roll, pitch, yaw in [1,255] and throttle in 0..255
\* other than 1, decoding the packet recovers the four axis values and, for
\* the advanced layout, fastFly, fastDrop, emergencyStop, circleTurnEnd,
\* noHeadMode, gyroCorrection and (fastReturn OR unlock); for the standard
\* layout, (fastFly OR fastDrop), emergencyStop, gyroCorrection,
\* circleTurnEnd and noHeadMode. Two states that differ in one of these
\* values never produce the same packet; the flags merged by an OR, and
\* fastReturn and unlock in the standard layout, are not recoverable.
C5_RoundTripOfCarried ==
    (/\ op = "build"
     /\ InClampRange(given)
     /\ given.control_accelerator \in (0 .. 255) \ {1}) =>
        /\ device_type = ADVANCED =>
              DecodeAdvanced(command) = CarriedAdvanced(given)
        /\ device_type = STANDARD =>
              DecodeStandard(command) = CarriedStandard(given)

\* a packet of the clamped domain, built from an object with both aliases
\* of bit 5 and with fastFly without fastDrop
C5_Witness ==
    /\ op = "build"
    /\ InClampRange(given)
    /\ given.control_accelerator = 255
    /\ given.is_fast_return /\ given.is_unlock
    /\ given.is_fast_fly /\ ~given.is_fast_drop
    /\ given.is_no_head_mode
    /\ tester = given

----------------------------------------------------------------------------
(* C6 *)

\* the positions of the payload bytes under the checksum, and of the
\* checksum, in a packet
PayloadAt(c) == IF Len(c) = 9 THEN 3 .. 7 ELSE 4 .. 9
ChecksumAt(c) == Len(c) - 1

\* the checksum a receiver recomputes over the payload of a packet
Recomputed(c) ==
    IF Len(c) = 9
    THEN Xor8(Xor8(Xor8(Xor8(c[3], c[4]), c[5]), c[6]), c[7])
    ELSE Xor8(Xor8(c[8], Xor8(Xor8(Xor8(c[5], c[4]), c[6]), c[7])), c[9])

\* C6: in every packet built, replacing any single payload byte (b1, b2,
\* throttle, yaw or a flags byte) by any different byte value makes the
\* checksum recomputed over the payload differ from the stored checksum.
C6_SingleByteCorruptionDetected ==
    op = "build" =>
        \A i \in PayloadAt(command) :
            \A v \in (0 .. 255) \ {command[i]} :
                Recomputed([command EXCEPT ![i] = v])
                    # command[ChecksumAt(command)]

\* packets of both layouts with a non-trivial payload were built
C6_Witness ==
    /\ Built(STANDARD)
    /\ command[8] = 15 /\ command[9] = 1 /\ command[6] = 2
    /\ Recomputed(command) = command[ChecksumAt(command)]

----------------------------------------------------------------------------
(* C8 *)

\* C8: hover() from any state sets the four axes to 128, clears
\* emergencyStop, fastFly and fastDrop, leaves gyroCorrection, noHeadMode,
\* fastReturn, unlock and circleTurnEnd (and the connection fields)
\* unchanged and sends exactly one flight packet, which encodes the neutral
\* axes and the flags as they are after the call.
C8_Hover ==
    op = "hover" =>
        /\ \A a \in AxisNames : tester[a] = 128
        /\ ~tester.is_emergency_stop /\ ~tester.is_fast_fly
        /\ ~tester.is_fast_drop
        /\ \A f \in DOMAIN tester :
              f \notin AxisNames \cup
                       {"is_emergency_stop", "is_fast_fly", "is_fast_drop"}
                  => tester[f] = given[f]
        /\ Len(sent) = 1
        /\ Len(sent[1]) = 9
        /\ \A i \in 3 .. 6 : sent[1][i] = 128
        /\ AdvancedFlagsAre(sent[1][7], tester)
        /\ \A k \in 0 .. 2 : Bit(sent[1][7], k) = 0

\* hover called with the three maneuver flags set, axes off neutral and
\* two of the other flags set
C8_Witness ==
    /\ op = "hover"
    /\ given.is_fast_fly /\ given.is_fast_drop /\ given.is_emergency_stop
    /\ given.control_turn > 255 /\ given.control_accelerator = 1
    /\ given.is_gyro_correction /\ given.is_unlock
    /\ Len(sent) = 1
    /\ sent[1][7] = 160
----------------------------------------------------------------------------
(* C7 *)

\* the bit of the advanced flags byte that carries the flag of a burst
FlagBit(c) ==
    CASE c = "takeoff" -> 0
      [] c = "land" -> 1
      [] c = "emergency" -> 2

\* one or more packets with bit k set, then exactly one with bit k clear
BurstShape(log, k) ==
    /\ Len(log) >= 2
    /\ \A i \in 1 .. (Len(log) - 1) : Bit(log[i][7], k) = 1
    /\ Bit(log[Len(log)][7], k) = 0

\* C7: a burst (takeoff_fast_fly with fastFly, land_fast_drop with
\* fastDrop, emergency_stop with emergencyStop) that has run to completion
\* has sent one or more packets with its flag set followed by exactly one
\* packet with the flag clear; until its flag is reset every packet it has
\* sent carries the flag.
C7_BurstShape ==
    /\ finished \in Bursts => BurstShape(sent, FlagBit(finished))
    /\ (phase \in {"try", "except"} /\ call \in Bursts
            /\ pc \in {"first", "loop", "reset", "last"}) =>
          \A i \in 1 .. Len(sent) : Bit(sent[i][7], FlagBit(call)) = 1

\* a landing that went through its timed loop and returned
C7_Witness ==
    /\ finished = "land"
    /\ Len(sent) >= 3
    /\ sent[1][7] = 2
    /\ sent[Len(sent)][7] = 0

----------------------------------------------------------------------------
(* C9 *)

\* the packets emergency_stop() has sent while it holds its flag
HeldPackets ==
    IF finished = "emergency" THEN SubSeq(sent, 1, Len(sent) - 1) ELSE sent

\* C9: when the emergency stop is triggered while a takeoff or landing
\* burst is executing, the packets the emergency stop sends while it holds
\* its flag carry emergencyStop=1 and do not carry the flag of the
\* pre-empted burst (fastFly / fastDrop).
C9_EmergencyPreempts ==
    (/\ preempted \in {"takeoff", "land"}
     /\ call = "emergency" \/ finished = "emergency") =>
        \A i \in 1 .. Len(HeldPackets) :
            /\ Bit(HeldPackets[i][7], 2) = 1
            /\ Bit(HeldPackets[i][7], FlagBit(preempted)) = 0

----------------------------------------------------------------------------
(* C10 *)

\* C10: once the test has ended, either by running through its calls or
\* through an interrupted burst followed by emergency_stop() in the except
\* clause, fastFly, fastDrop and emergencyStop are all false.
C10_FlagsTransient ==
    (phase = "done" /\ outcome \in {"completed", "handled"}) =>
        /\ ~tester.is_fast_fly
        /\ ~tester.is_fast_drop
        /\ ~tester.is_emergency_stop

----------------------------------------------------------------------------
(* C11 *)

\* the heartbeat threads that have not ended
LiveThreads == {i \in DOMAIN hb_pc : hb_pc[i] # "exited"}

\* C11: after any sequence of start_heartbeat() and stop_heartbeat() calls
\* at most one heartbeat thread is alive, and it is the one the object
\* holds in heartbeat_thread (the one stop_heartbeat() joins).
C11_SingleHeartbeat ==
    /\ Cardinality(LiveThreads) <= 1
    /\ \A i \in LiveThreads : i = tester.heartbeat_thread

----------------------------------------------------------------------------
(* C12 *)

\* stop_heartbeat() has returned in the cleanup of the test
StopReturned == phase = "cleanup" /\ pc = "close"

\* C12: once stop_heartbeat() has returned no heartbeat thread attempts a
\* send any more (so none races with the close of the socket).
C12_NoSendAfterStop ==
    [][StopReturned =>
          ~(\E i \in DOMAIN hb_pc : hb_pc[i] = "send" /\ hb_pc'[i] = "sleep")]_vars

----------------------------------------------------------------------------
(* C13 *)

\* C13: every datagram a heartbeat thread sends is {1, 1}; and under fair
\* scheduling a started heartbeat thread that finds the run flag set sends
\* a heartbeat and comes back to its test after the sleep, whatever the
\* main thread is doing, for as long as the flag stays set and the process
\* lives.
C13_HeartbeatKeepsBeating ==
    /\ [](hb_last \in {<<>>, <<1, 1>>})
    /\ \A i \in 1 .. MaxStarts :
          /\ (i \in DOMAIN hb_pc /\ hb_pc[i] = "test" /\ tester.running)
                ~> \/ (i \in DOMAIN hb_pc /\ hb_pc[i] = "sleep")
                   \/ ~tester.running
                   \/ phase = "done"
          /\ (i \in DOMAIN hb_pc /\ hb_pc[i] = "sleep")
                ~> \/ (i \in DOMAIN hb_pc /\ hb_pc[i] = "test")
                   \/ phase = "done"

\* a heartbeat has been sent while a takeoff burst is in its timed loop
C13_Witness ==
    /\ phase = "try" /\ call = "takeoff" /\ pc = "loop"
    /\ Len(sent) >= 2
    /\ hb_pc = <<"sleep">>
    /\ hb_last = <<1, 1>>

----------------------------------------------------------------------------
(* C14 *)

\* the last operation was one open_stream() call: in __init__, on the
\* reconnect path of run(), or on its read path
OneOpenStream == v_op \in {"open_stream", "reconnect", "reopen"}

\* C14: one open_stream() of a CameraViewer tries RTSP with CAP_FFMPEG
\* first, RTSP with the default backend only if that did not open, and the
\* webcam only if neither opened. If RTSP fails and the webcam opens it
\* returns without raising, with is_drone false and the webcam as capture;
\* if RTSP opens the webcam is never tried and is_drone is true.
C14_OpenOrder ==
    (OneOpenStream /\ viewer.kind = "CameraViewer") =>
        /\ Len(events) \in 1 .. 3
        /\ \A i \in DOMAIN events : events[i].ev = "open"
        /\ events[1].src = "rtsp_ffmpeg"
        /\ Len(events) >= 2 <=> ~events[1].ok
        /\ Len(events) >= 2 => events[2].src = "rtsp_default"
        /\ Len(events) = 3 <=> (~events[1].ok /\ ~events[2].ok)
        /\ Len(events) = 3 => events[3].src = "webcam"
        /\ (Len(events) = 3 /\ events[3].ok) =>
              /\ ~raised
              /\ ~viewer.is_drone
              /\ viewer.cap = Capture("webcam", TRUE)
        /\ Len(events) < 3 =>
              /\ ~raised
              /\ viewer.is_drone
              /\ viewer.cap.opened
              /\ viewer.cap.src \in {"rtsp_ffmpeg", "rtsp_default"}

\* the constructor of a CameraViewer found RTSP closed on both backends and
\* the webcam open
C14_Witness ==
    /\ viewer.kind = "CameraViewer"
    /\ v_op = "open_stream"
    /\ v_pc = "top"
    /\ Len(events) = 3
    /\ ~events[1].ok /\ ~events[2].ok /\ events[3].ok
    /\ ~viewer.is_drone

----------------------------------------------------------------------------
(* C15 *)

\* C15: when every source an open_stream() call tries fails, the call
\* raises, and the object holds no opened capture afterwards (both
\* viewers).
C15_AllFailRaises ==
    (OneOpenStream /\ \A i \in DOMAIN events : ~events[i].ok) =>
        /\ raised
        /\ ~viewer.cap.opened

\* a reconnect of a CameraViewer in run() found RTSP and the webcam closed
C15_Witness ==
    /\ viewer.kind = "CameraViewer"
    /\ v_op = "reconnect"
    /\ Len(events) = 3
    /\ \A i \in DOMAIN events : ~events[i].ok
    /\ raised
    /\ v_pc = "top"

----------------------------------------------------------------------------
(* C16 *)

\* C16: run() has given up ("Too many reconnect attempts") only when 5
\* consecutive open_stream() calls of its reconnect path have failed, never
\* after fewer, whatever number of empty reads came before.
C16_ExhaustedAfterFiveFailedOpens ==
    v_pc = "exhausted" => failed_opens = MAX_RECONNECTS

----------------------------------------------------------------------------
(* C17 *)

\* C17: the read path of run() forces a reopen only at the 8th consecutive
\* read that returned no frame, never after fewer, whatever reconnect
\* attempts came before.
C17_ReopenAfterEightEmptyReads ==
    reopen_at \in {0, REOPEN_AFTER}

----------------------------------------------------------------------------
(* C18 *)

\* switch_camera() has just been called on a CameraViewer that was on the
\* local webcam
SwitchOnWebcam ==
    /\ v_op = "switch_camera"
    /\ before.kind = "CameraViewer"
    /\ ~before.is_drone

\* C18: switch_camera() on a CameraViewer whose feed is the local webcam
\* does nothing: no datagram, no capture created, and cap, is_drone and
\* current_cam are what they were.
C18_SwitchOnWebcamIsNoOp ==
    SwitchOnWebcam => (events = <<>> /\ viewer = before)

\* key 'c' while the webcam is the opened capture
C18_Witness ==
    /\ SwitchOnWebcam
    /\ viewer.cap = Capture("webcam", TRUE)
    /\ viewer.current_cam = 1
    /\ v_pc = "top"

----------------------------------------------------------------------------
(* C19 *)

\* the last operation was a switch_camera() that went past the drone-only
\* test
Switched ==
    /\ v_op = "switch_camera"
    /\ (before.kind = "CameraViewer" => before.is_drone)

\* C19: current_cam changes only when the stream was reopened: after a
\* switch_camera() whose open_stream() calls all raised, current_cam is
\* what it was.
C19_CamKeptOnFailure ==
    (Switched /\ raised) => viewer.current_cam = before.current_cam

----------------------------------------------------------------------------
(* C20 *)

\* the events of the last operation that are datagrams
Sends == {i \in DOMAIN events : events[i].ev = "send"}

\* C20: a switch_camera() on the drone feed first sends exactly one
\* camera-select datagram, {6, 1} for camera 1 and {6, 2} for camera 2,
\* then reopens against RTSP with at most one retry, and never ends with
\* the local webcam as the capture.
C20_SwitchSendsThenReopensPrimary ==
    (Switched /\ \A i \in Sends : events[i].ok) =>
        /\ Sends = {1}
        /\ events[1].data =
              (IF before.current_cam = 1 THEN <<6, 2>> ELSE <<6, 1>>)
        /\ Cardinality({i \in DOMAIN events :
                           events[i].src = "rtsp_ffmpeg"}) \in 1 .. 2
        /\ \A i \in DOMAIN events : events[i].src # "webcam"
        /\ viewer.cap.src # "webcam"

----------------------------------------------------------------------------
(* C21 *)

\* the last operation was a switch_camera() whose select datagram could not
\* be sent
SendFailed ==
    /\ v_op = "switch_camera"
    /\ \E i \in DOMAIN events : events[i].ev = "send" /\ ~events[i].ok

\* C21: a failed send is not fatal: after a camera-select datagram that
\* could not be sent, the run loop of the viewer goes on (and the send
\* errors of a DroneTester are absorbed by send_command).
C21_SendFailureAbsorbed ==
    SendFailed => v_pc = "top"

----------------------------------------------------------------------------
(* C22 *)

\* a datagram has been handed to sendto by the heartbeat thread or by the
\* main thread, and that send has returned
SendReturned == hb_last # <<>> \/ sent # <<>>

\* C22: every send of a DroneTester uses a channel of its own, opened for
\* that send and closed when it returns: once a send has returned the
\* object holds no open socket (so two senders cannot share one).
C22_TransientChannel ==
    SendReturned => tester.socket # "open"

----------------------------------------------------------------------------
(* C23 *)

----------------------------------------------------------------------------
(* C24 *)

RtspSources == {"rtsp_ffmpeg", "rtsp_default"}

\* C24: whenever a CameraViewer holds an opened capture, is_drone is true
\* exactly when that capture is the RTSP source; and a frame that has been
\* read (the loop is at the key poll) was rotated exactly when it came from
\* RTSP and mirrored exactly when it came from the webcam.
C24_IsDroneMatchesSource ==
    viewer.kind = "CameraViewer" =>
        /\ viewer.cap.opened =>
              (viewer.is_drone <=> viewer.cap.src \in RtspSources)
        /\ v_pc = "key" =>
              /\ viewer.cap.opened
              /\ PostProcess(viewer) = "rotate"
                    <=> viewer.cap.src \in RtspSources
              /\ PostProcess(viewer) = "flip" <=> viewer.cap.src = "webcam"

\* a frame of the webcam is mirrored after the viewer fell back from the
\* drone feed to the webcam
C24_Witness ==
    /\ viewer.kind = "CameraViewer"
    /\ v_pc = "key"
    /\ viewer.cap = Capture("webcam", TRUE)
    /\ before.cap.src \in RtspSources
    /\ before.is_drone
    /\ ~viewer.is_drone
    /\ PostProcess(viewer) = "flip"

----------------------------------------------------------------------------
(* C25 *)

----------------------------------------------------------------------------
(* C26 *)

\* run() is inside its loop and not at the key poll: no frame has just been
\* read, no key is being handled
InLoopWithoutFrame == v_pc \in {"top", "read"}

\* C26: run() does not stay in its loop for ever without a frame: if from
\* some point on no read returns a frame (the key poll is never reached
\* again), the loop is eventually left.
C26_LoopLeftWithoutFrames ==
    ~<>[]InLoopWithoutFrame

====
